---- MODULE Spec2Model ----
(***************************************************************************)
(* Model of src/src/merger.rs: Merger<P>, a streaming image-grid           *)
(* compositor.  push() asks get_next_paste_coordinates() for the next      *)
(* coordinate (which calls grow_canvas() when no slot is free), overlays   *)
(* the image onto the canvas there and bumps the counters.                 *)
(*                                                                         *)
(* Representation                                                          *)
(*  - canvas is an image::ImageBuffer: [width, height, raw], raw being the *)
(*    row-major, channel-interleaved Vec<P::Subpixel> (1-based here).      *)
(*  - P ranges over two pixel types of the image crate: "Luma" (1 channel, *)
(*    blend replaces) and "LumaA" (2 channels, the last one alpha, blend   *)
(*    composites).                                                         *)
(*  - the u32 fields are integers.  last_pasted_index "starts at -1"       *)
(*    (merger.rs:15) in a u32, i.e. at the bit pattern 0xFFFFFFFF; that    *)
(*    one value u32::MAX is written -1 here (its two's complement          *)
(*    reading), every other value is itself.  With this encoding           *)
(*    wrapping +1 is +1 and `+ 1` overflows exactly at -1.                 *)
(*  - overflow_checks is the build: TRUE (debug) makes an overflowing      *)
(*    u32 operation panic, FALSE (release) makes it wrap.                  *)
(*  - blits, last_growth and last_call are history variables: the overlay  *)
(*    calls made, the canvas before/after the last growth, the last call   *)
(*    on the public surface and how it ended.  initial_rows is the row     *)
(*    count the compositor was constructed with.                           *)
(***************************************************************************)
EXTENDS Integers, Sequences, FiniteSets, TLC

\* Bounds of the model.
MaxImageDim == 2
MaxPerRow == 2
MaxInitialRows == 2
MaxPushes == 3
MaxMismatched == 1

VARIABLES canvas, image_dimensions, num_images, num_images_per_row,
          last_pasted_index, total_rows,
          pixel_type, overflow_checks, panicked,
          blits, last_growth, last_call, initial_rows

vars == <<canvas, image_dimensions, num_images, num_images_per_row,
          last_pasted_index, total_rows,
          pixel_type, overflow_checks, panicked,
          blits, last_growth, last_call, initial_rows>>

Min(a, b) == IF a < b THEN a ELSE b
Max(a, b) == IF a > b THEN a ELSE b

----------------------------------------------------------------------------
\* The pixel representation (image crate, P: Pixel).

PixelTypes == {"Luma", "LumaA"}

\* <P as Pixel>::CHANNEL_COUNT
CHANNEL_COUNT(P) == IF P = "Luma" THEN 1 ELSE 2

\* The largest subpixel value of the model (alpha = SubpixelMax is opaque).
SubpixelMax == MaxPushes + 1

\* Zero::zero() for every channel of a pixel.
ZeroPixel(P) == [c \in 1..CHANNEL_COUNT(P) |-> 0]

\* Pixel::blend: Luma replaces; LumaA composites (alpha 0 leaves the bottom
\* pixel, full alpha replaces it).
blend(P, bottom, top) ==
  IF P = "Luma" THEN top
  ELSE IF top[2] = 0 THEN bottom
  ELSE top

\* ImageBuffer::from_raw: Some(buffer) iff the container holds at least
\* width * height * CHANNEL_COUNT subpixels.
from_raw_fits(P, width, height, container) ==
  CHANNEL_COUNT(P) * width * height <= Len(container)

from_raw(width, height, container) ==
  [width |-> width, height |-> height, raw |-> container]

\* ImageBuffer::get_pixel(x, y), 0-based coordinates.
get_pixel(P, buf, x, y) ==
  [c \in 1..CHANNEL_COUNT(P) |->
     buf.raw[(y * buf.width + x) * CHANNEL_COUNT(P) + c]]

\* An Image<P, U>: uniform dimensions and one pixel value for all its pixels.
Image(w, h, px) == [width |-> w, height |-> h, pixel |-> px]

\* image::imageops::overlay(bottom, top, x, y) for x, y >= 0: every top pixel
\* that falls inside the bottom buffer is blended onto it; the rest is clipped.
overlay(P, bottom, top, x, y) ==
  LET range_width == Max(0, Min(top.width, bottom.width - x))
      range_height == Max(0, Min(top.height, bottom.height - y))
      C == CHANNEL_COUNT(P)
  IN [bottom EXCEPT !.raw =
        [k \in 1..Len(bottom.raw) |->
           LET pix == (k - 1) \div C
               ch == ((k - 1) % C) + 1
               px == pix % bottom.width
               py == pix \div bottom.width
           IN IF /\ px >= x /\ px < x + range_width
                 /\ py >= y /\ py < y + range_height
              THEN blend(P, get_pixel(P, bottom, px, py), top.pixel)[ch]
              ELSE bottom.raw[k]]]

----------------------------------------------------------------------------
\* Merger<P>

\* The fields of the struct, as one record (&mut self).
Self ==
  [canvas |-> canvas, image_dimensions |-> image_dimensions,
   num_images |-> num_images, num_images_per_row |-> num_images_per_row,
   last_pasted_index |-> last_pasted_index, total_rows |-> total_rows]

\* `v + 1` on the u32 v overflows iff v is u32::MAX, written -1 (see above).
add_one_overflows(v) == v = -1

\* Mutant of new_canvas_dimensions: the width is scaled as well.
new_canvas_dimensions_both_scaled(self, rows) ==
  <<self.canvas.width * rows, self.canvas.height * rows>>

\* merger.rs:36  (canvas.width(), canvas.height() * total_rows), total_rows
\* being the already incremented field.
new_canvas_dimensions(self, rows) ==
  <<self.canvas.width, self.canvas.height * rows>>

\* Mutants of new_container: a fresh zeroed buffer with nothing copied into
\* it; and the tail filled with the largest subpixel value instead of zero.
new_container_not_copied(old_raw, capacity) ==
  [i \in 1..capacity |-> 0]

new_container_not_zeroed(old_raw, capacity) ==
  old_raw \o [i \in 1..(capacity - Len(old_raw)) |-> SubpixelMax]

\* merger.rs:39-50  Vec::with_capacity(cap), the old raw contents pushed in
\* order, then resize_with(capacity, Zero::zero).
new_container(old_raw, capacity) ==
  old_raw \o [i \in 1..(capacity - Len(old_raw)) |-> 0]

\* Mutant of grow_canvas: two rows are added to total_rows.
grow_canvas_two_rows(P, self) ==
  LET rows == self.total_rows + 2
      dims == new_canvas_dimensions(self, rows)
      capacity == CHANNEL_COUNT(P) * (dims[1] * dims[2])
      container == new_container(self.canvas.raw, capacity)
  IN [self EXCEPT !.total_rows = rows,
                  !.canvas = from_raw(dims[1], dims[2], container)]

\* merger.rs:33-60
grow_canvas(P, self) ==
  LET rows == self.total_rows + 1
      dims == new_canvas_dimensions(self, rows)
      capacity == CHANNEL_COUNT(P) * (dims[1] * dims[2])
      container == new_container(self.canvas.raw, capacity)
  IN [self EXCEPT !.total_rows = rows,
                  !.canvas = from_raw(dims[1], dims[2], container)]

\* merger.rs:63  (num_images_per_row * total_rows) - num_images
available_images(self) ==
  (self.num_images_per_row * self.total_rows) - self.num_images

\* Mutant of ensure_capacity: grows only once capacity is already exceeded.
ensure_capacity_late(P, self) ==
  IF available_images(self) < 0 THEN grow_canvas(P, self) ELSE self

\* Mutant of ensure_capacity: grows while one slot is still free.
ensure_capacity_early(P, self) ==
  IF available_images(self) <= 1 THEN grow_canvas(P, self) ELSE self

\* merger.rs:64-67  the receiver after the capacity check.
ensure_capacity(P, self) ==
  IF available_images(self) = 0 THEN grow_canvas(P, self) ELSE self

\* merger.rs:52-57  from_raw(...).unwrap() panics when a growth is due and
\* the container built for it does not fit the new dimensions.
unwrap_panics(P, self) ==
  /\ available_images(self) = 0
  /\ LET grown == grow_canvas(P, self).canvas
     IN ~from_raw_fits(P, grown.width, grown.height, grown.raw)

\* merger.rs:70-74  the returned pair: column and row of the next index.
paste_coordinates(self) ==
  LET current_paste_index == self.last_pasted_index + 1
      x == current_paste_index % self.num_images_per_row
      y == current_paste_index \div self.num_images_per_row
  IN <<x, y>>

\* merger.rs:62-75  [self: the receiver afterwards, grew, panic, xy].
\* A panic is a u32 overflow in a build with overflow checks: the
\* subtraction of line 63 (before any growth) or the addition of line 70
\* (after it); the unwrap of line 57 panics in every build, after line 34
\* has incremented total_rows.
get_next_paste_coordinates(P, checks, self) ==
  IF checks /\ available_images(self) < 0
  THEN [self |-> self, grew |-> FALSE, panic |-> TRUE, xy |-> <<0, 0>>]
  ELSE IF unwrap_panics(P, self)
  THEN [self |-> [self EXCEPT !.total_rows = @ + 1],
        grew |-> FALSE, panic |-> TRUE, xy |-> <<0, 0>>]
  ELSE LET after == ensure_capacity(P, self)
           grew == after.total_rows # self.total_rows
       IN IF checks /\ add_one_overflows(after.last_pasted_index)
          THEN [self |-> after, grew |-> grew, panic |-> TRUE, xy |-> <<0, 0>>]
          ELSE [self |-> after, grew |-> grew, panic |-> FALSE,
                xy |-> paste_coordinates(after)]

\* Mutant of bump_counters: num_images is not incremented.
bump_counters_index_only(self) ==
  [self EXCEPT !.last_pasted_index = @ + 1]

\* merger.rs:83-84  last_pasted_index += 1; num_images += 1.
bump_counters(self) ==
  [self EXCEPT !.last_pasted_index = @ + 1, !.num_images = @ + 1]

----------------------------------------------------------------------------
\* History values.

NoGrowth == [grew |-> FALSE]

\* The fields of a Merger other than its canvas.
Fields(self) ==
  [image_dimensions |-> self.image_dimensions, num_images |-> self.num_images,
   num_images_per_row |-> self.num_images_per_row,
   last_pasted_index |-> self.last_pasted_index,
   total_rows |-> self.total_rows]
NoCall == [op |-> "none"]

\* Does the image have the dimensions the compositor was built for?
Sized(image) ==
  /\ image.width = image_dimensions[1]
  /\ image.height = image_dimensions[2]

Mismatched == {i \in 1..Len(blits) : ~blits[i].sized}

\* The wrong sizes a caller may push: one pixel narrower, wider, shorter or
\* taller than image_dimensions, or one pixel smaller both ways.
WrongSizes ==
  LET w == image_dimensions[1]
      h == image_dimensions[2]
  IN {<<w - 1, h>>, <<w + 1, h>>, <<w, h - 1>>, <<w, h + 1>>, <<w - 1, h - 1>>}
       \cap ((1..MaxImageDim) \X (1..MaxImageDim))

\* The images a caller may push next.  Every image carries the ordinal of
\* its push as luma, so that placed images are told apart on the canvas; a
\* correctly sized LumaA image is fully opaque or fully transparent, a
\* wrongly sized one fully opaque.
NextImages ==
  LET luma == Len(blits) + 1
      pixels == IF pixel_type = "Luma" THEN {<<luma>>}
                ELSE {<<luma, a>> : a \in {0, SubpixelMax}}
      opaque == IF pixel_type = "Luma" THEN <<luma>> ELSE <<luma, SubpixelMax>>
  IN {Image(image_dimensions[1], image_dimensions[2], px) : px \in pixels}
       \cup {Image(d[1], d[2], opaque) : d \in WrongSizes}

----------------------------------------------------------------------------
\* construct(image_dimensions, num_images_per_row, initial_rows): a zeroed
\* canvas of initial_rows rows of num_images_per_row slots, no image placed,
\* last_pasted_index "at -1".
Init ==
  /\ image_dimensions \in (1..MaxImageDim) \X (1..MaxImageDim)
  /\ num_images_per_row \in 1..MaxPerRow
  /\ total_rows \in 1..MaxInitialRows
  /\ pixel_type \in PixelTypes
  /\ overflow_checks \in BOOLEAN
  /\ canvas = from_raw(image_dimensions[1] * num_images_per_row,
                       image_dimensions[2] * total_rows,
                       [i \in 1..(CHANNEL_COUNT(pixel_type)
                                   * image_dimensions[1] * num_images_per_row
                                   * image_dimensions[2] * total_rows) |-> 0])
  /\ num_images = 0
  /\ last_pasted_index = -1
  /\ panicked = FALSE
  /\ blits = <<>>
  /\ last_growth = NoGrowth
  /\ last_call = NoCall
  /\ initial_rows = total_rows

\* merger.rs:79-85  push(&mut self, image)
push(image) ==
  /\ ~panicked
  /\ Len(blits) < MaxPushes
  /\ Sized(image) \/ Cardinality(Mismatched) < MaxMismatched
  /\ LET next == get_next_paste_coordinates(pixel_type, overflow_checks, Self)
         m == next.self
         x == next.xy[1]
         y == next.xy[2]
         done == bump_counters(m)
     IN /\ last_growth' = IF next.grew
                          THEN [grew |-> TRUE, old |-> canvas,
                                new |-> m.canvas, rows |-> m.total_rows,
                                pre |-> Fields(Self), post |-> Fields(m)]
                          ELSE NoGrowth
        /\ total_rows' = m.total_rows
        /\ IF next.panic \/ (overflow_checks /\ add_one_overflows(m.last_pasted_index))
           THEN /\ canvas' = m.canvas
                /\ panicked' = TRUE
                /\ last_call' = [op |-> "push", image |-> image, result |-> "panic"]
                /\ UNCHANGED <<num_images, last_pasted_index, blits>>
           ELSE /\ canvas' = overlay(pixel_type, m.canvas, image, x, y)
                /\ last_pasted_index' = done.last_pasted_index
                /\ num_images' = done.num_images
                /\ blits' = Append(blits, [image |-> image, x |-> x, y |-> y,
                                           sized |-> Sized(image),
                                           grew |-> next.grew])
                /\ last_call' = [op |-> "push", image |-> image, result |-> "ok"]
                /\ UNCHANGED panicked
  /\ UNCHANGED <<image_dimensions, num_images_per_row, pixel_type,
                 overflow_checks, initial_rows>>

\* Mutant of pasted_images_len: the other counter is returned.
pasted_images_len_index(self) == self.last_pasted_index

\* merger.rs:20-22  pasted_images_len(&self)
pasted_images_len(self) == self.num_images

PastedImagesLen ==
  /\ ~panicked
  /\ last_call' = [op |-> "pasted_images_len",
                   result |-> pasted_images_len(Self)]
  /\ UNCHANGED <<canvas, image_dimensions, num_images, num_images_per_row,
                 last_pasted_index, total_rows, pixel_type, overflow_checks,
                 panicked, blits, last_growth, initial_rows>>

\* Mutant of todo: an empty body, which returns normally.
todo_empty(self) == [self |-> self, panic |-> FALSE]

\* merger.rs:90, 95  todo!(): panics with "not yet implemented", the
\* receiver untouched.
todo(self) == [self |-> self, panic |-> TRUE]

\* A call whose body is `body`, a todo!().
Unimplemented(op, body) ==
  /\ ~panicked
  /\ panicked' = body.panic
  /\ last_call' = [op |-> op,
                   result |-> IF body.panic THEN "not yet implemented" ELSE "ok"]
  /\ canvas' = body.self.canvas
  /\ num_images' = body.self.num_images
  /\ last_pasted_index' = body.self.last_pasted_index
  /\ total_rows' = body.self.total_rows
  /\ UNCHANGED <<image_dimensions, num_images_per_row, pixel_type,
                 overflow_checks, blits, last_growth, initial_rows>>

\* The argument of bulk_push: no image, or one correctly sized image.
BulkImages ==
  {<<>>} \cup {<<image>> : image \in {i \in NextImages : Sized(i)}}

\* merger.rs:89-91  bulk_push(&mut self, images)
bulk_push(images) == Unimplemented("bulk_push", todo(Self))

\* merger.rs:94-96  remove_image(&mut self, index)
remove_image(index) == Unimplemented("remove_image", todo(Self))

Next ==
  \/ \E image \in NextImages : push(image)
  \/ PastedImagesLen
  \/ \E images \in BulkImages : bulk_push(images)
  \/ \E index \in 0..num_images : remove_image(index)

Spec == Init /\ [][Next]_vars

\* merger.rs:34-42  a push that has to grow the canvas and whose allocation
\* of the new container fails by unwinding (Vec::with_capacity panics):
\* line 34 has already incremented total_rows, nothing else has run.
push_alloc_failure(image) ==
  /\ ~panicked
  /\ Len(blits) < MaxPushes
  /\ Sized(image)
  /\ available_images(Self) = 0
  /\ total_rows' = total_rows + 1
  /\ panicked' = TRUE
  /\ last_call' = [op |-> "push", image |-> image, result |-> "alloc_panic"]
  /\ last_growth' = NoGrowth
  /\ UNCHANGED <<canvas, image_dimensions, num_images, num_images_per_row,
                 last_pasted_index, pixel_type, overflow_checks, blits,
                 initial_rows>>

NextAlloc ==
  \/ Next
  \/ \E image \in NextImages : push_alloc_failure(image)

\* The program in an environment where allocations may fail.
SpecAlloc == Init /\ [][NextAlloc]_vars

----------------------------------------------------------------------------
\* Properties.

\* Every push so far was of a correctly sized image.
AllSized == Mismatched = {}

\* The pixels of the canvas buffer c, as 0-based coordinates.
PixelsOf(c) == (0..(c.width - 1)) \X (0..(c.height - 1))

\* The pixels of the canvas buffer c under the i-th overlay call.
Footprint(c, i) ==
  {p \in PixelsOf(c) :
     /\ p[1] >= blits[i].x /\ p[1] < blits[i].x + blits[i].image.width
     /\ p[2] >= blits[i].y /\ p[2] < blits[i].y + blits[i].image.height}

\* C1: the i-th pushed image (0-based) of a run of correctly sized pushes is
\* blitted at pixel ((i mod N) * image_width, (i div N) * image_height).
C1_CoordinateDeterminism ==
  AllSized =>
    \A k \in 1..Len(blits) :
      /\ blits[k].x = ((k - 1) % num_images_per_row) * image_dimensions[1]
      /\ blits[k].y = ((k - 1) \div num_images_per_row) * image_dimensions[2]

\* C2: in a run of correctly sized pushes, no step (growth and blit of a
\* later push) changes a canvas pixel under an image placed before.
C2_NoOverwrite ==
  [][AllSized' =>
       \A i \in 1..Len(blits) : \A p \in Footprint(canvas, i) :
         get_pixel(pixel_type, canvas', p[1], p[2])
           = get_pixel(pixel_type, canvas, p[1], p[2])]_vars

\* C3: the canvas is image_height * total_rows pixels high in every state.
C3_CanvasHeight ==
  canvas.height = image_dimensions[2] * total_rows

\* C4: the first W*H*C elements of the buffer a growth builds are the whole
\* buffer it started from, element for element and in order.
C4_GrowthPreservesData ==
  last_growth.grew =>
    LET old == last_growth.old
        n == old.width * old.height * CHANNEL_COUNT(pixel_type)
    IN /\ n = Len(old.raw)
       /\ n <= Len(last_growth.new.raw)
       /\ \A k \in 1..n : last_growth.new.raw[k] = old.raw[k]

\* C4 witness: a growth of a canvas that already held image data.
C4_Witness ==
  /\ last_growth.grew
  /\ \E k \in 1..Len(last_growth.old.raw) : last_growth.old.raw[k] # 0

\* C5: the buffer a growth builds is zero from index W*H*C on and holds
\* exactly W * new_height * C elements, new_height being image_height times
\* the incremented total_rows.
C5_GrowthZeroFill ==
  last_growth.grew =>
    LET old == last_growth.old
        new == last_growth.new
    IN /\ \A k \in (Len(old.raw) + 1)..Len(new.raw) : new.raw[k] = 0
       /\ Len(new.raw) = old.width * (image_dimensions[2] * last_growth.rows)
                           * CHANNEL_COUNT(pixel_type)

\* C6: num_images never exceeds num_images_per_row * total_rows, so the
\* subtraction at the start of push does not underflow.
C6_CapacityInvariant ==
  /\ num_images <= num_images_per_row * total_rows
  /\ available_images(Self) >= 0

\* C6 witness: a push grew the canvas and the rows are all full again.
C6_Witness ==
  /\ last_growth.grew
  /\ num_images = num_images_per_row * total_rows

\* C7: every push that returns increases num_images by exactly 1, and then
\* num_images = last_pasted_index + 1.
C7_CountInvariant ==
  [][(last_call'.op = "push" /\ last_call'.result = "ok") =>
       /\ num_images' = num_images + 1
       /\ num_images' = last_pasted_index' + 1]_vars

\* C7 witness: a second push has returned.
C7_Witness ==
  /\ last_call.op = "push" /\ last_call.result = "ok"
  /\ num_images = 2

\* C8: a push of a wrongly sized image is reported as a DimensionMismatch
\* and leaves num_images, last_pasted_index, total_rows and the canvas alone.
C8_DimensionMismatch ==
  [][(last_call'.op = "push" /\ ~Sized(last_call'.image)) =>
       /\ last_call'.result = "DimensionMismatch"
       /\ UNCHANGED <<num_images, last_pasted_index, total_rows, canvas>>]_vars

\* C9: a push of a correctly sized image never fails: no u32 overflow, no
\* failed unwrap.
C9_PushNeverFails ==
  (last_call.op = "push" /\ Sized(last_call.image)) => last_call.result = "ok"

\* C10: every canvas pixel outside the footprint of all placed images is zero.
C10_ZeroBackground ==
  \A p \in PixelsOf(canvas) :
    (\A i \in 1..Len(blits) : p \notin Footprint(canvas, i)) =>
      get_pixel(pixel_type, canvas, p[1], p[2]) = ZeroPixel(pixel_type)

\* C10 witness: after a growth, with an image placed, some pixel of the
\* canvas lies outside every footprint.
C10_Witness ==
  /\ last_growth.grew
  /\ blits # <<>>
  /\ \E p \in PixelsOf(canvas) :
       \A i \in 1..Len(blits) : p \notin Footprint(canvas, i)

\* C11: a growth whose allocation fails leaves the compositor as it was:
\* canvas, total_rows, num_images and last_pasted_index keep their values.
C11_AllocationFailureAtomic ==
  [][(last_call'.op = "push" /\ last_call'.result = "alloc_panic") =>
       UNCHANGED <<canvas, total_rows, num_images, last_pasted_index>>]_vars

\* C12: every call of bulk_push or remove_image ends in a not-implemented
\* failure, never returns normally, and changes neither the canvas nor
\* num_images, last_pasted_index or total_rows.
C12_UnsupportedOperation ==
  [][last_call'.op \in {"bulk_push", "remove_image"} =>
       /\ last_call'.result = "not yet implemented"
       /\ panicked'
       /\ UNCHANGED <<canvas, num_images, last_pasted_index, total_rows>>]_vars

\* C12 witness: an unimplemented operation was called on a compositor that
\* holds images.
C12_Witness ==
  /\ last_call.op \in {"bulk_push", "remove_image"}
  /\ num_images > 0

\* C13: pasted_images_len returns num_images, the number of pushes
\* completed so far, and changes neither the canvas nor any field.
C13_PastedImagesLenPure ==
  [][last_call'.op = "pasted_images_len" =>
       /\ last_call'.result = num_images
       /\ last_call'.result = Len(blits)
       /\ UNCHANGED <<canvas, image_dimensions, num_images, num_images_per_row,
                      last_pasted_index, total_rows>>]_vars

\* C13 witness: pasted_images_len was called after two pushes.
C13_Witness ==
  /\ last_call.op = "pasted_images_len"
  /\ Len(blits) = 2

\* C14: a push grows the canvas iff no slot is free when it starts; the
\* growth is of the canvas the push found and the image is blitted onto the
\* grown canvas; a push that starts with a free slot keeps total_rows and
\* the canvas dimensions.
C14_EagerGrowth ==
  [][/\ Len(blits') = Len(blits) + 1 =>
          LET b == blits'[Len(blits')]
          IN /\ last_growth'.grew <=> (available_images(Self) = 0)
             /\ b.grew = last_growth'.grew
             /\ last_growth'.grew =>
                  /\ last_growth'.old = canvas
                  /\ canvas' = overlay(pixel_type, last_growth'.new,
                                       b.image, b.x, b.y)
     /\ (last_call'.op = "push" /\ available_images(Self) # 0) =>
          /\ total_rows' = total_rows
          /\ canvas'.width = canvas.width
          /\ canvas'.height = canvas.height]_vars

\* C14 witness: a push that found a full two-slot row grew the canvas and
\* returned.
C14_Witness ==
  /\ last_call.op = "push" /\ last_call.result = "ok"
  /\ blits # <<>> /\ blits[Len(blits)].grew
  /\ num_images_per_row = 2

\* C15: pushing N * R + 1 correctly sized images into a fresh compositor of
\* R rows grows the canvas exactly once, in the last of these pushes, which
\* yields total_rows = R + 1, canvas height image_height * (R + 1) and the
\* image placed at pixel (0, R * image_height).
C15_GrowthCount ==
  LET n == num_images_per_row * initial_rows + 1
  IN (AllSized /\ Len(blits) = n) =>
       /\ {i \in 1..n : blits[i].grew} = {n}
       /\ total_rows = initial_rows + 1
       /\ canvas.height = image_dimensions[2] * (initial_rows + 1)
       /\ blits[n].x = 0
       /\ blits[n].y = initial_rows * image_dimensions[2]

\* C16: a growth increments total_rows by exactly 1 and keeps the canvas
\* width and every other field; the canvas width never changes.
C16_GrowthFrame ==
  [][/\ (Len(blits') = Len(blits) + 1 /\ last_growth'.grew) =>
          /\ last_growth'.post
               = [last_growth'.pre EXCEPT !.total_rows = @ + 1]
          /\ last_growth'.pre = Fields(Self)
          /\ last_growth'.new.width = last_growth'.old.width
     /\ canvas'.width = canvas.width]_vars

\* C16 witness: a growth to a third row.
C16_Witness ==
  /\ last_growth.grew
  /\ last_growth.post.total_rows = 3

\* C17: the empty compositor has last_pasted_index = -1, its first push
\* computes slot index 0 (column 0, row 0), and after the k-th placement
\* last_pasted_index = k - 1.
C17_InitialIndex ==
  /\ num_images = 0 => last_pasted_index = -1
  /\ num_images = Len(blits)
  /\ num_images > 0 => last_pasted_index = num_images - 1
  /\ (last_call.op = "push" /\ Len(blits) <= 1) =>
       /\ Len(blits) = 1
       /\ blits[1].x = 0 /\ blits[1].y = 0

\* C18: total_rows = max(R, ceil(num_images / N)), R being the initial row
\* count.
C18_MinimalRows ==
  total_rows = Max(initial_rows,
                   (num_images + num_images_per_row - 1) \div num_images_per_row)

\* C18 witness: the images no longer fit the initial rows.
C18_Witness ==
  /\ total_rows > initial_rows
  /\ num_images > num_images_per_row * initial_rows

====
